---- MODULE Spec2Model ----
(***************************************************************************)
(* DenseMotionNetwork (scr/modules/dense_motion.py).                       *)
(*                                                                         *)
(* A tensor is a record [shape, data]: data is the row-major flattening,   *)
(* so reshape keeps data and changes shape, exactly as paddle does.        *)
(* Multi-indices are 0-based tuples; axes are 0-based as in the source.    *)
(*                                                                         *)
(* Numbers are exact fixed-point integers:                                 *)
(*   - coordinates (grid, keypoint values, motions) are multiples of       *)
(*     1/CoordUnit(h, w), so the normalised grid of any size is integral;  *)
(*   - sampled pixels are multiples of 1/SampleUnit(h, w), the bilinear    *)
(*     weights' common denominator;                                        *)
(*   - mask weights are multiples of 1/MaskUnit.                           *)
(***************************************************************************)
EXTENDS Integers, Sequences, FiniteSets, TLC

\* ------------------------------------------------------------- bounds
MaxBS == 2
MaxKp == 2
MaxC == 2
MaxH == 2
MaxW == 3
MaskUnit == 2

\* ------------------------------------------------------- tensor basics
RECURSIVE ProdSeq(_)
ProdSeq(s) == IF s = <<>> THEN 1 ELSE Head(s) * ProdSeq(Tail(s))

RECURSIVE SumSeq(_)
SumSeq(s) == IF s = <<>> THEN 0 ELSE Head(s) + SumSeq(Tail(s))

\* the multi-index of flat position n (row-major): last axis fastest
RECURSIVE UnravelTo(_, _, _)
UnravelTo(n, shape, d) ==
    IF d = 0 THEN <<>>
    ELSE Append(UnravelTo(n \div shape[d], shape, d - 1), n % shape[d])

Unravel(n, shape) == UnravelTo(n, shape, Len(shape))

\* the flat position of a multi-index (row-major), by Horner's rule
RECURSIVE RavelFrom(_, _, _, _)
RavelFrom(idx, shape, d, acc) ==
    IF d > Len(shape) THEN acc
    ELSE RavelFrom(idx, shape, d + 1, acc * shape[d] + idx[d])

Ravel(idx, shape) == RavelFrom(idx, shape, 1, 0)

At(t, idx) == t.data[Ravel(idx, t.shape) + 1]

\* the tensor of the given shape and elements; the concatenation with <<>> turns
\* the function into a tuple, so each element is computed once
Tensor(shape, elems) == [shape |-> shape, data |-> elems \o <<>>]

Max2(a, b) == IF a >= b THEN a ELSE b

Ones(n) == [d \in 1..n |-> 1]

\* tensor.reshape(shape): one dimension may be -1 and is inferred
Reshape(t, s) ==
    LET known == ProdSeq([d \in 1..Len(s) |-> IF s[d] = -1 THEN 1 ELSE s[d]])
    IN  [shape |-> [d \in 1..Len(s) |-> IF s[d] = -1 THEN Len(t.data) \div known ELSE s[d]],
         data  |-> t.data]

\* tensor.unsqueeze(axis): a negative axis counts from the end of the result
Unsqueeze(t, axis) ==
    LET r   == Len(t.shape)
        pos == IF axis < 0 THEN axis + r + 1 ELSE axis
    IN  [shape |-> SubSeq(t.shape, 1, pos) \o <<1>> \o SubSeq(t.shape, pos + 1, r),
         data  |-> t.data]

\* tensor.squeeze(axis): drops the axis when its size is 1
Squeeze(t, axis) ==
    LET r   == Len(t.shape)
        pos == IF axis < 0 THEN axis + r ELSE axis
    IN  IF t.shape[pos + 1] = 1
        THEN [shape |-> SubSeq(t.shape, 1, pos) \o SubSeq(t.shape, pos + 2, r),
              data  |-> t.data]
        ELSE t

\* paddle.tile(x, repeat_times): the shorter of shape / repeat_times is
\* left-padded with ones; the input is laid out repeat_times[d] times along d
Tile(t, reps) ==
    LET r    == Max2(Len(t.shape), Len(reps))
        sh   == Ones(r - Len(t.shape)) \o t.shape
        rp   == Ones(r - Len(reps)) \o reps
        outS == [d \in 1..r |-> sh[d] * rp[d]]
        src  == [shape |-> sh, data |-> t.data]
    IN  Tensor(outS, [n \in 1..ProdSeq(outS) |->
            LET idx == Unravel(n - 1, outS)
            IN  At(src, [d \in 1..r |-> idx[d] % sh[d]])])

\* paddle.concat([a, b], axis)
Concat(a, b, axis) ==
    LET r    == Len(a.shape)
        outS == [a.shape EXCEPT ![axis + 1] = a.shape[axis + 1] + b.shape[axis + 1]]
    IN  Tensor(outS, [n \in 1..ProdSeq(outS) |->
            LET idx == Unravel(n - 1, outS) IN
            IF idx[axis + 1] < a.shape[axis + 1]
            THEN At(a, idx)
            ELSE At(b, [idx EXCEPT ![axis + 1] = idx[axis + 1] - a.shape[axis + 1]])])

\* paddle.transpose(x, perm): output axis d is input axis perm[d]
Transpose(t, perm) ==
    LET r    == Len(t.shape)
        outS == [d \in 1..r |-> t.shape[perm[d] + 1]]
        inv(a) == CHOOSE d \in 1..r : perm[d] + 1 = a
    IN  Tensor(outS, [n \in 1..ProdSeq(outS) |->
            LET idx == Unravel(n - 1, outS)
            IN  At(t, [a \in 1..r |-> idx[inv(a)]])])

\* the elementwise operators -, + and *
BinaryOp(op, x, y) ==
    CASE op = "sub" -> x - y
      [] op = "add" -> x + y
      [] op = "mul" -> x * y

\* elementwise binary operators with numpy broadcasting
Broadcast(a, b, op) ==
    LET r    == Max2(Len(a.shape), Len(b.shape))
        sa   == Ones(r - Len(a.shape)) \o a.shape
        sb   == Ones(r - Len(b.shape)) \o b.shape
        outS == [d \in 1..r |-> IF sa[d] = 1 THEN sb[d] ELSE sa[d]]
        ta   == [shape |-> sa, data |-> a.data]
        tb   == [shape |-> sb, data |-> b.data]
    IN  Tensor(outS, [n \in 1..ProdSeq(outS) |->
            LET idx == Unravel(n - 1, outS)
            IN  BinaryOp(op, At(ta, [d \in 1..r |-> IF sa[d] = 1 THEN 0 ELSE idx[d]]),
                             At(tb, [d \in 1..r |-> IF sb[d] = 1 THEN 0 ELSE idx[d]]))])

TSub(a, b) == Broadcast(a, b, "sub")
TAdd(a, b) == Broadcast(a, b, "add")
TMul(a, b) == Broadcast(a, b, "mul")

\* paddle.sum(x, axis)
SumAxis(t, axis) ==
    LET r    == Len(t.shape)
        outS == SubSeq(t.shape, 1, axis) \o SubSeq(t.shape, axis + 2, r)
    IN  Tensor(outS, [n \in 1..ProdSeq(outS) |->
            LET idx == Unravel(n - 1, outS) IN
            SumSeq([m \in 1..t.shape[axis + 1] |->
                At(t, SubSeq(idx, 1, axis) \o <<m - 1>> \o SubSeq(idx, axis + 1, r - 1))])])

\* paddle.matmul(a, b): batched over the leading axes, which agree
Matmul(a, b) ==
    LET r    == Len(a.shape)
        m    == a.shape[r]
        outS == SubSeq(a.shape, 1, r - 1) \o <<b.shape[r]>>
    IN  Tensor(outS, [n \in 1..ProdSeq(outS) |->
            LET idx == Unravel(n - 1, outS) IN
            SumSeq([l \in 1..m |->
                At(a, [idx EXCEPT ![r] = l - 1]) * At(b, [idx EXCEPT ![r - 1] = l - 1])])])

\* paddle.inverse(x) on batched 2x2 matrices: adjugate over determinant.
\* The jacobians drawn below have determinant +1 or -1, so the quotient is exact.
Inverse(t) ==
    LET r == Len(t.shape)
        e(idx, i, j) == At(t, [idx EXCEPT ![r - 1] = i, ![r] = j])
        det(idx) == e(idx, 0, 0) * e(idx, 1, 1) - e(idx, 0, 1) * e(idx, 1, 0)
        adj(idx) == IF idx[r - 1] = idx[r]
                    THEN e(idx, 1 - idx[r - 1], 1 - idx[r])
                    ELSE 0 - e(idx, idx[r - 1], idx[r])
    IN  Tensor(t.shape, [n \in 1..ProdSeq(t.shape) |->
            LET idx == Unravel(n - 1, t.shape)
            IN  adj(idx) \div det(idx)])

\* -------------------------------------------------- fixed-point scales
\* coordinates are stored times CoordUnit, so -1 and +1 are -CoordUnit, +CoordUnit
CoordUnit(h, w) == (h - 1) * (w - 1)

\* sampled pixels are stored times SampleUnit (the bilinear weights' denominator)
SampleUnit(h, w) == (2 * (h - 1)) * (2 * (w - 1))

\* --------------------------------------------------- modules.util helpers
\* make_coordinate_grid((h, w)): shape (h, w, 2), element (i, j) = (x_j, y_i),
\* x and y linearly spaced over [-1, 1]
make_coordinate_grid(h, w) ==
    Tensor(<<h, w, 2>>, [n \in 1..ProdSeq(<<h, w, 2>>) |->
        LET idx == Unravel(n - 1, <<h, w, 2>>)
        IN  IF idx[3] = 0 THEN (2 * idx[2] - (w - 1)) * (h - 1)
                          ELSE (2 * idx[1] - (h - 1)) * (w - 1)])

\* kp2gaussian(kp, spatial_size, kp_variance): shape (bs, K, h, w). The entry is
\* exp(-0.5 * d2 / variance) with d2 the squared distance of the grid point to the
\* keypoint; the model stores -d2 (in CoordUnit^2), of which the Gaussian is a
\* strictly increasing function: two entries are equal exactly when the Gaussians
\* are. Only the shape and the placement of the entries are read from it.
kp2gaussian(kp, h, w) ==
    LET bs   == kp.value.shape[1]
        K    == kp.value.shape[2]
        grid == make_coordinate_grid(h, w)
    IN  Tensor(<<bs, K, h, w>>, [n \in 1..ProdSeq(<<bs, K, h, w>>) |->
            LET idx == Unravel(n - 1, <<bs, K, h, w>>)
                dx  == At(grid, <<idx[3], idx[4], 0>>) - At(kp.value, <<idx[1], idx[2], 0>>)
                dy  == At(grid, <<idx[3], idx[4], 1>>) - At(kp.value, <<idx[1], idx[2], 1>>)
            IN  0 - (dx * dx + dy * dy)])

\* F.grid_sample(x, grid, mode='bilinear', padding_mode='zeros', align_corners=True):
\* x is (N, C, H, W), grid is (N, h, w, 2) holding (x, y) in [-1, 1]; -1 and +1 are
\* the centres of the first and last pixel; a corner outside the image counts 0.
GridSample(x, grid) ==
    LET N  == x.shape[1]
        C  == x.shape[2]
        H  == x.shape[3]
        W  == x.shape[4]
        U  == CoordUnit(H, W)
        DX == 2 * (H - 1)
        DY == 2 * (W - 1)
        pix(n, c, yy, xx) == IF yy >= 0 /\ yy < H /\ xx >= 0 /\ xx < W
                             THEN At(x, <<n, c, yy, xx>>) ELSE 0
        outS == <<N, C, grid.shape[2], grid.shape[3]>>
    IN  Tensor(outS, [n \in 1..ProdSeq(outS) |->
            LET idx == Unravel(n - 1, outS)
                gx == At(grid, <<idx[1], idx[3], idx[4], 0>>) + U
                gy == At(grid, <<idx[1], idx[3], idx[4], 1>>) + U
                x0 == gx \div DX
                y0 == gy \div DY
                fx == gx - x0 * DX
                fy == gy - y0 * DY
            IN    (DY - fy) * (DX - fx) * pix(idx[1], idx[2], y0, x0)
                + (DY - fy) * fx        * pix(idx[1], idx[2], y0, x0 + 1)
                + fy        * (DX - fx) * pix(idx[1], idx[2], y0 + 1, x0)
                + fy        * fx        * pix(idx[1], idx[2], y0 + 1, x0 + 1)])

\* ------------------------------------------------------------- state
VARIABLES
    num_kp,                  \* self.num_kp
    num_channels,            \* num_channels given to __init__
    occlusion,               \* TRUE iff self.occlusion is a layer (not None)
    source_image,            \* forward's arguments
    kp_driving,
    kp_source,
    pc,                      \* position in forward
    heatmap_representation,  \* forward's locals
    sparse_motion,
    deformed_source,
    buf,
    mask,
    deformation,
    out_dict

vars == <<num_kp, num_channels, occlusion, source_image, kp_driving, kp_source, pc,
          heatmap_representation, sparse_motion, deformed_source, buf, mask,
          deformation, out_dict>>

\* a local not yet assigned
None == [shape |-> <<0>>, data |-> <<>>]

\* ------------------------------------------------ DenseMotionNetwork
\* in_features the hourglass is constructed with
HourglassInFeatures == (num_kp + 1) * (num_channels + 1)

create_heatmap_representations(image, kp_d, kp_s) ==
    LET h == image.shape[3]
        w == image.shape[4]
        gaussian_driving == kp2gaussian(kp_d, h, w)
        gaussian_source  == kp2gaussian(kp_s, h, w)
        heatmap == TSub(gaussian_driving, gaussian_source)
        zeros   == Tensor(<<heatmap.shape[1], 1, h, w>>,
                          [n \in 1..(heatmap.shape[1] * h * w) |-> 0])
    IN  Unsqueeze(Concat(zeros, heatmap, 1), 2)

\* the jacobian branch flattening the matrices in (K, bs) order while the offset
\* grids are flattened in (bs, K) order
JacobianCorrection_MisalignedFlatten(coordinate_grid, kp_d, kp_s, h, w) ==
    LET jacobian1 == Matmul(kp_s.jacobian, Inverse(kp_d.jacobian))
        dim_1     == jacobian1.shape[1]
        dim_2     == jacobian1.shape[2]
        jacobian2 == Reshape(Transpose(jacobian1, <<1, 0, 2, 3>>), <<-1, 2, 2>>)
        jacobian4 == Tile(Unsqueeze(Unsqueeze(jacobian2, -3), -3), <<1, h, w, 1, 1>>)
        grid1     == Reshape(coordinate_grid, <<-1, h, w, 2>>)
        grid3     == Squeeze(Matmul(jacobian4, Unsqueeze(grid1, -1)), -1)
    IN  Reshape(grid3, <<dim_1, dim_2>> \o Tail(grid3.shape))

\* the jacobian branch without the inverse of the driving jacobian
JacobianCorrection_NoInverse(coordinate_grid, kp_d, kp_s, h, w) ==
    LET jacobian1 == Matmul(kp_s.jacobian, kp_d.jacobian)
        dim_1     == jacobian1.shape[1]
        dim_2     == jacobian1.shape[2]
        jacobian4 == Tile(Unsqueeze(Unsqueeze(Reshape(jacobian1, <<-1, 2, 2>>), -3), -3),
                          <<1, h, w, 1, 1>>)
        grid1     == Reshape(coordinate_grid, <<-1, h, w, 2>>)
        grid3     == Squeeze(Matmul(jacobian4, Unsqueeze(grid1, -1)), -1)
    IN  Reshape(grid3, <<dim_1, dim_2>> \o Tail(grid3.shape))

\* the jacobian branch applying the matrix to the identity grid, not to the offsets
JacobianCorrection_GridNotOffset(coordinate_grid, kp_d, kp_s, h, w) ==
    LET jacobian1 == Matmul(kp_s.jacobian, Inverse(kp_d.jacobian))
        dim_1     == jacobian1.shape[1]
        dim_2     == jacobian1.shape[2]
        jacobian4 == Tile(Unsqueeze(Unsqueeze(Reshape(jacobian1, <<-1, 2, 2>>), -3), -3),
                          <<1, h, w, 1, 1>>)
        grid1     == Tile(Reshape(make_coordinate_grid(h, w), <<1, h, w, 2>>),
                          <<dim_1 * dim_2, 1, 1, 1>>)
        grid3     == Squeeze(Matmul(jacobian4, Unsqueeze(grid1, -1)), -1)
    IN  Reshape(grid3, <<dim_1, dim_2>> \o Tail(grid3.shape))

\* the jacobian branch of create_sparse_motions (lines 58-68)
JacobianCorrection(coordinate_grid, kp_d, kp_s, h, w) ==
    LET jacobian1 == Matmul(kp_s.jacobian, Inverse(kp_d.jacobian))
        dim_1     == jacobian1.shape[1]
        dim_2     == jacobian1.shape[2]
        else_dim  == SubSeq(jacobian1.shape, 3, Len(jacobian1.shape))
        jacobian2 == Reshape(jacobian1, <<-1>> \o else_dim)
        jacobian3 == Unsqueeze(Unsqueeze(jacobian2, -3), -3)
        jacobian4 == Tile(jacobian3, <<1, h, w, 1, 1>>)
        dimm      == SubSeq(coordinate_grid.shape, 3, Len(coordinate_grid.shape))
        grid1     == Reshape(coordinate_grid, <<-1>> \o dimm)
        grid2     == Matmul(jacobian4, Unsqueeze(grid1, -1))
        grid3     == Squeeze(grid2, -1)
    IN  Reshape(grid3, <<dim_1, dim_2>> \o Tail(grid3.shape))

\* create_sparse_motions with the background entry appended after the keypoints
create_sparse_motions_BackgroundLast(image, kp_d, kp_s) ==
    LET bs == image.shape[1]
        h  == image.shape[3]
        w  == image.shape[4]
        identity_grid   == Reshape(make_coordinate_grid(h, w), <<1, 1, h, w, 2>>)
        coordinate_grid == TSub(identity_grid, Reshape(kp_d.value, <<bs, num_kp, 1, 1, 2>>))
        cg == IF "jacobian" \in DOMAIN kp_d /\ "jacobian" \in DOMAIN kp_s
              THEN JacobianCorrection(coordinate_grid, kp_d, kp_s, h, w)
              ELSE coordinate_grid
        driving_to_source == TAdd(cg, Reshape(kp_s.value, <<bs, num_kp, 1, 1, 2>>))
        identity_tiled    == Tile(identity_grid, <<bs, 1, 1, 1, 1>>)
    IN  IF "jacobian" \in DOMAIN kp_d /\ "jacobian" \notin DOMAIN kp_s
        THEN [ok |-> FALSE, err |-> "KeyError"]
        ELSE [ok |-> TRUE, val |-> Concat(driving_to_source, identity_tiled, 1)]

\* the result is [ok |-> TRUE, val |-> tensor], or [ok |-> FALSE, err |-> exception]
\* when the lookup kp_source['jacobian'] raises
create_sparse_motions(image, kp_d, kp_s) ==
    LET bs == image.shape[1]
        h  == image.shape[3]
        w  == image.shape[4]
        identity_grid   == Reshape(make_coordinate_grid(h, w), <<1, 1, h, w, 2>>)
        coordinate_grid == TSub(identity_grid, Reshape(kp_d.value, <<bs, num_kp, 1, 1, 2>>))
        finish(cg) ==
            LET driving_to_source == TAdd(cg, Reshape(kp_s.value, <<bs, num_kp, 1, 1, 2>>))
                identity_tiled    == Tile(identity_grid, <<bs, 1, 1, 1, 1>>)
            IN  [ok |-> TRUE, val |-> Concat(identity_tiled, driving_to_source, 1)]
    IN  IF "jacobian" \in DOMAIN kp_d
        THEN IF "jacobian" \in DOMAIN kp_s
             THEN finish(JacobianCorrection(coordinate_grid, kp_d, kp_s, h, w))
             ELSE [ok |-> FALSE, err |-> "KeyError"]
        ELSE finish(coordinate_grid)

create_deformed_source_image(image, motions) ==
    LET bs == image.shape[1]
        h  == image.shape[3]
        w  == image.shape[4]
        image1         == Reshape(image, <<-1, h, w>>)
        source_repeat1 == Tile(Unsqueeze(Unsqueeze(image1, 1), 1), <<num_kp + 1, 1, 1, 1, 1>>)
        source_repeat2 == Reshape(source_repeat1, <<bs * (num_kp + 1), -1, h, w>>)
        motions1       == Reshape(motions, <<bs * (num_kp + 1), h, w, -1>>)
        sparse_deformed == GridSample(source_repeat2, motions1)
    IN  Reshape(sparse_deformed, <<bs, num_kp + 1, -1, h, w>>)

\* ------------------------------------------------------------ inputs
\* source_image (bs, C, h, w): every pixel a different value
LabelImage(bs, C, h, w) ==
    Tensor(<<bs, C, h, w>>, [n \in 1..(bs * C * h * w) |-> n])

\* candidate keypoint positions, in units of CoordUnit: on and off the image
Points(U) == << <<0, 0>>, <<U, 0>>, <<0 - U, U>>, <<0, 0 - U>>, <<U, U>>, <<2 * U, 0 - U>> >>

\* kp['value'] (bs, K, 2): keypoint (b, k) sits at the point numbered seed + b*K + k
KpValue(seed, bs, K, U) ==
    Tensor(<<bs, K, 2>>, [n \in 1..ProdSeq(<<bs, K, 2>>) |->
        LET idx == Unravel(n - 1, <<bs, K, 2>>)
        IN  Points(U)[((seed + idx[1] * K + idx[2]) % Len(Points(U))) + 1][idx[3] + 1]])

\* candidate jacobians: identity, two shears, a rotation, a reflection (all invertible)
Matrices == << <<1, 0, 0, 1>>, <<1, 1, 0, 1>>, <<0, -1, 1, 0>>, <<1, 0, 1, 1>>, <<0, 1, 1, 0>> >>

\* kp['jacobian'] (bs, K, 2, 2): seed 0 is the identity everywhere, another seed
\* gives keypoint (b, k) the matrix numbered seed + b*K + k
KpJacobian(seed, bs, K) ==
    Tensor(<<bs, K, 2, 2>>, [n \in 1..ProdSeq(<<bs, K, 2, 2>>) |->
        LET idx == Unravel(n - 1, <<bs, K, 2, 2>>)
            m == IF seed = 0 THEN 1 ELSE ((seed + idx[1] * K + idx[2]) % Len(Matrices)) + 1
        IN  Matrices[m][2 * idx[3] + idx[4] + 1]])

ValueSeeds == {0, 1}
JacobianSeeds == {0, 1, 2}

\* whether a keypoint record has a jacobian: <<>> when it has none, else <<seed>>
JacobianOptions == {<<>>} \cup {<<seed>> : seed \in JacobianSeeds}

\* a keypoint record: 'jacobian' is a key only when a jacobian was estimated
Keypoints(vseed, jopt, bs, K, U) ==
    IF jopt = <<>>
    THEN [value |-> KpValue(vseed, bs, K, U)]
    ELSE [value |-> KpValue(vseed, bs, K, U), jacobian |-> KpJacobian(jopt[1], bs, K)]

\* the mask head's output (bs, K+1, h, w): softmax weights, non-negative and summing
\* to MaskUnit over axis 1. Pixel (b, i, j) puts weight 1 on entry k1 and the rest
\* on entry k2, both chosen by the seed (seed 0 puts all weight on one entry).
MaskOf(seed, bs, K, h, w) ==
    Tensor(<<bs, K + 1, h, w>>, [n \in 1..ProdSeq(<<bs, K + 1, h, w>>) |->
        LET idx == Unravel(n - 1, <<bs, K + 1, h, w>>)
            k1 == (seed + idx[1] + idx[3] + 2 * idx[4]) % (K + 1)
            k2 == (k1 + seed) % (K + 1)
        IN  (IF idx[2] = k1 THEN 1 ELSE 0) + (IF idx[2] = k2 THEN MaskUnit - 1 ELSE 0)])

MaskSeeds == {0, 1}

\* ------------------------------------------------------------- Init
\* the state at the call of forward on a constructed module; scale_factor is 1,
\* so source_image is not downsampled. The image is MaxC x MaxH x MaxW; the driving
\* keypoints sit at the points of seed 0, the source keypoints at those of seed vs
\* (0: the same points, 1: other points)
Init ==
    \E bs \in 1..MaxBS, K \in 1..MaxKp, occ \in BOOLEAN, vs \in ValueSeeds,
       jd \in JacobianOptions, js \in JacobianOptions :
        /\ num_kp = K
        /\ num_channels = MaxC
        /\ occlusion = occ
        /\ source_image = LabelImage(bs, MaxC, MaxH, MaxW)
        /\ kp_driving = Keypoints(0, jd, bs, K, CoordUnit(MaxH, MaxW))
        /\ kp_source = Keypoints(vs, js, bs, K, CoordUnit(MaxH, MaxW))
        /\ pc = "heatmap"
        /\ heatmap_representation = None
        /\ sparse_motion = None
        /\ deformed_source = None
        /\ buf = None
        /\ mask = None
        /\ deformation = None
        /\ out_dict = [key \in {} |-> None]

\* ------------------------------------------------------------ forward
\* line 97
Heatmap ==
    /\ pc = "heatmap"
    /\ heatmap_representation' =
           create_heatmap_representations(source_image, kp_driving, kp_source)
    /\ pc' = "motions"
    /\ UNCHANGED <<num_kp, num_channels, occlusion, source_image, kp_driving, kp_source,
                   sparse_motion, deformed_source, buf, mask, deformation, out_dict>>

\* line 98; an exception raised inside leaves forward without a return value
SparseMotions ==
    /\ pc = "motions"
    /\ LET r == create_sparse_motions(source_image, kp_driving, kp_source)
       IN  IF r.ok
           THEN sparse_motion' = r.val /\ pc' = "deform"
           ELSE sparse_motion' = sparse_motion /\ pc' = "raised"
    /\ UNCHANGED <<num_kp, num_channels, occlusion, source_image, kp_driving, kp_source,
                   heatmap_representation, deformed_source, buf, mask, deformation,
                   out_dict>>

\* lines 99-100
Deform ==
    /\ pc = "deform"
    /\ deformed_source' = create_deformed_source_image(source_image, sparse_motion)
    /\ out_dict' = ("sparse_deformed" :> deformed_source') @@ out_dict
    /\ pc' = "concat"
    /\ UNCHANGED <<num_kp, num_channels, occlusion, source_image, kp_driving, kp_source,
                   heatmap_representation, sparse_motion, buf, mask, deformation>>

\* the hourglass input with the deformed images ahead of the heatmap
HourglassInput_DeformedFirst(heatmap, deformed, bs, h, w) ==
    Reshape(Concat(deformed, heatmap, 2), <<bs, -1, h, w>>)

\* the hourglass input of lines 102-103
HourglassInput(heatmap, deformed, bs, h, w) ==
    Reshape(Concat(heatmap, deformed, 2), <<bs, -1, h, w>>)

Concatenate ==
    /\ pc = "concat"
    /\ buf' = HourglassInput(heatmap_representation, deformed_source,
                             source_image.shape[1], source_image.shape[3],
                             source_image.shape[4])
    /\ pc' = "refine"
    /\ UNCHANGED <<num_kp, num_channels, occlusion, source_image, kp_driving, kp_source,
                   heatmap_representation, sparse_motion, deformed_source, mask,
                   deformation, out_dict>>

\* lines 104-108: the hourglass takes in_features channels; its prediction, the mask
\* convolution and the softmax are learned, so the mask is any softmax output
Refine ==
    /\ pc = "refine"
    /\ buf.shape[2] = HourglassInFeatures
    /\ \E seed \in MaskSeeds :
           mask' = MaskOf(seed, source_image.shape[1], num_kp,
                          source_image.shape[3], source_image.shape[4])
    /\ out_dict' = ("mask" :> mask') @@ out_dict
    /\ pc' = "combine"
    /\ UNCHANGED <<num_kp, num_channels, occlusion, source_image, kp_driving, kp_source,
                   heatmap_representation, sparse_motion, deformed_source, buf,
                   deformation>>

\* lines 109-112 with the motion stack reshaped, not transposed, to (b, K+1, 2, h, w)
Deformation_Reshaped(motions, m) ==
    LET mask1    == Unsqueeze(m, 2)
        motions1 == Reshape(motions, <<motions.shape[1], motions.shape[2], 2,
                                       motions.shape[3], motions.shape[4]>>)
        summed   == SumAxis(TMul(motions1, mask1), 1)
    IN  Transpose(summed, <<0, 2, 3, 1>>)

\* lines 109-112
Deformation(motions, m) ==
    LET mask1    == Unsqueeze(m, 2)
        motions1 == Transpose(motions, <<0, 1, 4, 2, 3>>)
        summed   == SumAxis(TMul(motions1, mask1), 1)
    IN  Transpose(summed, <<0, 2, 3, 1>>)

\* lines 109-113
Combine ==
    /\ pc = "combine"
    /\ deformation' = Deformation(sparse_motion, mask)
    /\ out_dict' = ("deformation" :> deformation') @@ out_dict
    /\ pc' = "occlusion"
    /\ UNCHANGED <<num_kp, num_channels, occlusion, source_image, kp_driving, kp_source,
                   heatmap_representation, sparse_motion, deformed_source, buf, mask>>

\* the occlusion head's output (bs, 1, h, w): a sigmoid, strictly between 0 and 1,
\* in units of 1/MaskUnit
OcclusionMap(v, bs, h, w) == Tensor(<<bs, 1, h, w>>, [n \in 1..(bs * h * w) |-> v])

\* lines 116-119 attaching a map in any case: a zero map when the head is disabled
Return_ZeroMap ==
    /\ pc = "occlusion"
    /\ \E v \in 1..(MaskUnit - 1) :
           out_dict' = ("occlusion_map" :>
                           OcclusionMap(IF occlusion THEN v ELSE 0, source_image.shape[1],
                                        source_image.shape[3], source_image.shape[4]))
                       @@ out_dict
    /\ pc' = "done"
    /\ UNCHANGED <<num_kp, num_channels, occlusion, source_image, kp_driving, kp_source,
                   heatmap_representation, sparse_motion, deformed_source, buf, mask,
                   deformation>>

\* lines 116-119
Return ==
    /\ pc = "occlusion"
    /\ IF occlusion
       THEN \E v \in 1..(MaskUnit - 1) :
                out_dict' = ("occlusion_map" :>
                                OcclusionMap(v, source_image.shape[1],
                                             source_image.shape[3], source_image.shape[4]))
                            @@ out_dict
       ELSE out_dict' = out_dict
    /\ pc' = "done"
    /\ UNCHANGED <<num_kp, num_channels, occlusion, source_image, kp_driving, kp_source,
                   heatmap_representation, sparse_motion, deformed_source, buf, mask,
                   deformation>>

Next == Heatmap \/ SparseMotions \/ Deform \/ Concatenate \/ Refine \/ Combine \/ Return

Spec == Init /\ [][Next]_vars

\* ------------------------------------------------- reading the state
BS == source_image.shape[1]
H == source_image.shape[3]
W == source_image.shape[4]

\* the sub-tensor at the leading indices prefix
Select(t, prefix) ==
    LET r    == Len(prefix)
        rest == SubSeq(t.shape, r + 1, Len(t.shape))
        n    == ProdSeq(rest)
        off  == RavelFrom(prefix, SubSeq(t.shape, 1, r), 1, 0) * n
    IN  [shape |-> rest, data |-> SubSeq(t.data, off + 1, off + n)]

HasJacobian(kp) == "jacobian" \in DOMAIN kp

\* kp_driving == kp_source: identical values, jacobians identical or absent on both
SameKeypoints ==
    /\ kp_driving.value = kp_source.value
    /\ HasJacobian(kp_driving) = HasJacobian(kp_source)
    /\ HasJacobian(kp_driving) => kp_driving.jacobian = kp_source.jacobian

IsIdentityJacobian(kp) ==
    /\ HasJacobian(kp)
    /\ \A b \in 0..(BS - 1), k \in 0..(num_kp - 1), r \in 0..1, c \in 0..1 :
           At(kp.jacobian, <<b, k, r, c>>) = (IF r = c THEN 1 ELSE 0)

\* create_sparse_motions has returned / create_deformed_source_image has returned
MotionsReturned == pc = "deform"
DeformedReturned == pc = "concat"

\* ------------------------------------------------------------- claims

\* C1: create_deformed_source_image pairs every motion field with the source image
\* of its own batch element: sparse_deformed[b, k] is source_image[b] (all channels,
\* in order) sampled with sparse_motions[b, k], for every b in 0..bs-1, k in 0..K.
C1_OwnBatchElement ==
    DeformedReturned =>
        \A b \in 0..(BS - 1), k \in 0..num_kp :
            Select(deformed_source, <<b, k>>).data =
                GridSample(Unsqueeze(Select(source_image, <<b>>), 0),
                           Unsqueeze(Select(sparse_motion, <<b, k>>), 0)).data

\* C2: when kp_driving equals kp_source, sparse_deformed[b, k] equals the original
\* source_image[b] for each of the K+1 entries k and every batch index b (pixel
\* values are stored times SampleUnit).
C2_IdentityWarpDeformed ==
    (DeformedReturned /\ SameKeypoints) =>
        \A b \in 0..(BS - 1), k \in 0..num_kp :
            Select(deformed_source, <<b, k>>).data =
                [n \in 1..(num_channels * H * W) |->
                    SampleUnit(H, W) * Select(source_image, <<b>>).data[n]]

\* C3: if 'jacobian' is present in exactly one of kp_driving and kp_source, forward
\* ends in an error and returns no output; it never computes the no-jacobian path.
C3_AsymmetryFailsFast ==
    (HasJacobian(kp_driving) # HasJacobian(kp_source) /\ pc \notin {"heatmap", "motions"})
        => pc = "raised"

\* the offset of grid point (i, j) from driving keypoint (b, k), component c
GridOffset(b, k, i, j, c) ==
    At(make_coordinate_grid(H, W), <<i, j, c>>) - At(kp_driving.value, <<b, k, c>>)

\* M[b,k] * offset, times det(kp_driving.jacobian[b,k]), component c, where
\* M[b,k] = kp_source.jacobian[b,k] * inverse(kp_driving.jacobian[b,k]):
\* the inverse is the adjugate over the determinant
AffineOffsetTimesDet(b, k, i, j, c) ==
    LET Jd(r, q) == At(kp_driving.jacobian, <<b, k, r, q>>)
        Js(r, q) == At(kp_source.jacobian, <<b, k, r, q>>)
        a0 == Jd(1, 1) * GridOffset(b, k, i, j, 0) - Jd(0, 1) * GridOffset(b, k, i, j, 1)
        a1 == Jd(0, 0) * GridOffset(b, k, i, j, 1) - Jd(1, 0) * GridOffset(b, k, i, j, 0)
    IN  Js(c, 0) * a0 + Js(c, 1) * a1

DrivingDet(b, k) ==
    At(kp_driving.jacobian, <<b, k, 0, 0>>) * At(kp_driving.jacobian, <<b, k, 1, 1>>)
    - At(kp_driving.jacobian, <<b, k, 0, 1>>) * At(kp_driving.jacobian, <<b, k, 1, 0>>)

\* entry k+1 of batch b is the motion field of keypoint k:
\* M[b,k] * (identity_grid[i,j] - kp_driving.value[b,k]) + kp_source.value[b,k]
IsFieldOfKeypoint(b, k) ==
    \A i \in 0..(H - 1), j \in 0..(W - 1), c \in 0..1 :
        LET moved == At(sparse_motion, <<b, k + 1, i, j, c>>) - At(kp_source.value, <<b, k, c>>)
        IN  IF HasJacobian(kp_driving) /\ HasJacobian(kp_source)
            THEN DrivingDet(b, k) * moved = AffineOffsetTimesDet(b, k, i, j, c)
            ELSE moved = GridOffset(b, k, i, j, c)

\* C4: for every batch index b, keypoint k in 0..K-1 and grid position (i, j),
\* sparse_motions[b, k+1, i, j] = M[b,k] * (identity_grid[i, j] - kp_driving.value[b, k])
\* + kp_source.value[b, k], with M[b,k] = kp_source.jacobian[b,k] *
\* inverse(kp_driving.jacobian[b,k]) when jacobians are present and the identity
\* otherwise; the flatten to (bs*K) and back never pairs the matrix of one (b, k)
\* with the offset grid of another.
C4_SparseMotionFormula ==
    MotionsReturned =>
        \A b \in 0..(BS - 1), k \in 0..(num_kp - 1) : IsFieldOfKeypoint(b, k)

\* C4 witness: both jacobians present, differing between keypoints and between
\* driving and source, with at least two batch elements and two keypoints
C4_Witness ==
    /\ MotionsReturned
    /\ BS >= 2 /\ num_kp >= 2
    /\ HasJacobian(kp_driving) /\ HasJacobian(kp_source)
    /\ ~IsIdentityJacobian(kp_driving) /\ ~IsIdentityJacobian(kp_source)
    /\ kp_driving.jacobian # kp_source.jacobian
    /\ Select(kp_driving.jacobian, <<0, 0>>) # Select(kp_driving.jacobian, <<1, 1>>)
    /\ kp_driving.value # kp_source.value

\* C5: when kp_driving equals kp_source (identical values, jacobians identical and
\* invertible or absent on both), every entry of the sparse motion stack, entries
\* 1..K included, equals the identity coordinate grid, for every batch index.
C5_IdentityWarpMotions ==
    (MotionsReturned /\ SameKeypoints) =>
        \A b \in 0..(BS - 1), k \in 0..num_kp :
            Select(sparse_motion, <<b, k>>) = make_coordinate_grid(H, W)

\* C5 witness: equal keypoints carrying equal jacobians that are not the identity
C5_Witness ==
    /\ MotionsReturned
    /\ SameKeypoints
    /\ HasJacobian(kp_driving)
    /\ ~IsIdentityJacobian(kp_driving)
    /\ BS >= 2 /\ num_kp >= 2

\* C6: for every input, entry 0 of the stack returned by create_sparse_motions equals
\* the identity coordinate grid for every batch index, and the stack has K+1 entries
\* with the keypoint fields at indices 1..K in keypoint order.
C6_BackgroundChannel ==
    MotionsReturned =>
        /\ sparse_motion.shape = <<BS, num_kp + 1, H, W, 2>>
        /\ \A b \in 0..(BS - 1) :
               /\ Select(sparse_motion, <<b, 0>>) = make_coordinate_grid(H, W)
               /\ \A k \in 0..(num_kp - 1) : IsFieldOfKeypoint(b, k)

\* C6 witness: keypoints that move, so that no keypoint field is the identity grid
C6_Witness ==
    /\ MotionsReturned
    /\ BS >= 2 /\ num_kp >= 2
    /\ \A b \in 0..(BS - 1), k \in 1..num_kp :
           Select(sparse_motion, <<b, k>>) # make_coordinate_grid(H, W)

\* C7: when 'jacobian' is present on both kp_driving and kp_source and is the 2x2
\* identity for every batch element and keypoint, create_sparse_motions returns a
\* stack equal, entry by entry and in shape (batch, K+1, H, W, 2), to the one it
\* returns for the same keypoint values with no jacobians.
C7_IdentityJacobianEquivalence ==
    (MotionsReturned /\ IsIdentityJacobian(kp_driving) /\ IsIdentityJacobian(kp_source)) =>
        /\ sparse_motion.shape = <<BS, num_kp + 1, H, W, 2>>
        /\ sparse_motion = create_sparse_motions(source_image,
                                                 [value |-> kp_driving.value],
                                                 [value |-> kp_source.value]).val

\* C7 witness: identity jacobians on both sides, keypoints that move
C7_Witness ==
    /\ MotionsReturned
    /\ IsIdentityJacobian(kp_driving) /\ IsIdentityJacobian(kp_source)
    /\ kp_driving.value # kp_source.value
    /\ BS >= 2 /\ num_kp >= 2

\* C8: every successful forward call returns a record containing 'sparse_deformed',
\* 'mask' and 'deformation'; it contains 'occlusion_map' if and only if the module
\* was constructed with estimate_occlusion_map true; when disabled the key is absent.
C8_OutputKeys ==
    pc = "done" =>
        DOMAIN out_dict = {"sparse_deformed", "mask", "deformation"}
                          \cup (IF occlusion THEN {"occlusion_map"} ELSE {})

\* C8 witness: a returned record of a module built without the occlusion head
C8_Witness ==
    /\ pc = "done"
    /\ ~occlusion
    /\ "occlusion_map" \notin DOMAIN out_dict
    /\ "deformation" \in DOMAIN out_dict

\* C9: for every batch index b, position (i, j) and component c in {x, y},
\* deformation[b, i, j, c] = sum over k in 0..K of mask[b, k, i, j] *
\* sparse_motion[b, k, i, j, c]; the two transposes swap neither the components nor
\* the row and column axes, and the result has shape (batch, H, W, 2).
C9_MaskWeightedSum ==
    pc \in {"occlusion", "done"} =>
        /\ out_dict["deformation"].shape = <<BS, H, W, 2>>
        /\ \A b \in 0..(BS - 1), i \in 0..(H - 1), j \in 0..(W - 1), c \in 0..1 :
               At(out_dict["deformation"], <<b, i, j, c>>) =
                   SumSeq([k \in 1..(num_kp + 1) |->
                       At(out_dict["mask"], <<b, k - 1, i, j>>)
                       * At(sparse_motion, <<b, k - 1, i, j, c>>)])

\* C9 witness: a returned deformation that blends two entries per pixel, of motion
\* fields that differ from each other and from the identity grid
C9_Witness ==
    /\ pc = "done"
    /\ BS >= 2 /\ num_kp >= 2
    /\ \E k \in 0..num_kp : At(mask, <<0, k, 0, 0>>) \notin {0, MaskUnit}
    /\ HasJacobian(kp_driving) /\ ~IsIdentityJacobian(kp_driving)
    /\ Select(sparse_motion, <<0, 1>>) # Select(sparse_motion, <<0, 2>>)
    /\ Select(sparse_motion, <<0, 1>>) # make_coordinate_grid(H, W)

\* C10: the tensor passed to the hourglass has shape (bs, (K+1)*(C+1), h, w), its
\* channel count equals the in_features the hourglass was constructed with, and for
\* every b and k channel k*(C+1) of batch b holds heatmap entry k of batch b,
\* followed by the C channels of sparse_deformed[b, k] at channels
\* k*(C+1)+1 .. k*(C+1)+C.
C10_HourglassInputLayout ==
    pc = "refine" =>
        /\ buf.shape = <<BS, (num_kp + 1) * (num_channels + 1), H, W>>
        /\ buf.shape[2] = HourglassInFeatures
        /\ \A b \in 0..(BS - 1), k \in 0..num_kp, i \in 0..(H - 1), j \in 0..(W - 1) :
               /\ At(buf, <<b, k * (num_channels + 1), i, j>>) =
                      At(heatmap_representation, <<b, k, 0, i, j>>)
               /\ \A c \in 0..(num_channels - 1) :
                      At(buf, <<b, k * (num_channels + 1) + 1 + c, i, j>>) =
                          At(deformed_source, <<b, k, c, i, j>>)

\* C10 witness: a hourglass input built from a heatmap that is not all zero, for
\* several batch elements, keypoints and image channels
C10_Witness ==
    /\ pc = "refine"
    /\ BS >= 2 /\ num_kp >= 2 /\ num_channels >= 2
    /\ \E n \in 1..Len(heatmap_representation.data) : heatmap_representation.data[n] # 0

====
